---- MODULE Spec2Model ----
(***************************************************************************)
(* A model of the job orchestration of the audiobook captioning server     *)
(* (src/app.py): the job registry _jobs, the whisper_stream generator, the  *)
(* sequential and parallel batch drivers and the routes that start them.    *)
(*                                                                         *)
(* Every whisper_stream generator instance is an "invocation" i \in Inv.    *)
(* Its position in the generator body is pc[i]; every block of code that    *)
(* runs between two points where other threads can interleave is one        *)
(* action.  The external whisper process of an invocation is modelled by    *)
(* the environment actions ToolWrite and ToolExit.                           *)
(***************************************************************************)
EXTENDS Integers, Sequences, FiniteSets, TLC

\* ------------------------------------------------------------------ bounds
\* Number of whisper_stream generator instances created in one run.
MaxInv == 2
\* Number of lines the whisper process of a single whisper_stream call writes.
MaxLines == 2
\* Number of lines all whisper processes write together while the server runs.
MaxServerLines == 1

\* max_workers of /gen_all when the request names none (line 509).
DefaultMaxWorkers == 2

\* ------------------------------------------------------------ value spaces
Inv == 1..MaxInv
None == 0

Books == {"b1"}
Mp3s == {"m1", "m2", "m3"}
Keys == Books \X Mp3s

\* A line of tool output is its text without the line terminator, as a
\* sequence of characters; " " stands for any whitespace character.
ToolLines == { <<>>, <<" ">>, <<"a">>, <<"a", " ">>, <<" ", "a">>, <<"b">> }

\* The capability records get_whisper_capabilities_cached can return.
Capabilities == [word_timestamps_available : BOOLEAN,
                 highlight_words_available : BOOLEAN,
                 installed : BOOLEAN]

VARIABLES
    files,      \* names of the mp3 files present in the book folder
    vtt,        \* keys whose caption file exists (caption_path(..).exists())
    toolCaps,   \* what get_whisper_capabilities_cached returns
    budget,     \* lines the whisper processes may still write in this run
    jobs,       \* _jobs: key -> invocation whose Popen handle is stored, or None
    pc,         \* position of each invocation in whisper_stream
    key,        \* (book, mp3) of each invocation
    req,        \* requested flags of each invocation
    cmd,        \* optional flags of the command line each invocation built
    out,        \* lines each invocation has yielded so far
    pipe,       \* lines written by the process and not yet read
    produced,   \* all lines the process of each invocation has written
    proc,       \* "none" | "running" | "exited": the invocation's process
    rc,         \* exit code of the process once it has exited
    regState,   \* "never" | "registered" | "deregistered": what the
                \* invocation itself has done to the registry
    batch,      \* the generator batch() of stream_book_captions_route
    par,        \* the generator whisper_stream_parallel and its executor
    speed,      \* the request POST /api/whisper/speed-test and its call of
                \* test_whisper_speed
    store,      \* SPEED_RATIOS_FILE, and what was asked of it so far
    probe       \* the lru_cache of get_whisper_capabilities_cached and the
                \* calls under way

\* The variables of the whisper_stream invocations.
wsVars == << jobs, pc, key, req, cmd, out, pipe, produced, proc, rc, regState >>
\* The environment: the files on disk, the tool, the lines it may still write.
envVars == << files, vtt, toolCaps, budget >>

vars == << files, vtt, toolCaps, budget, jobs, pc, key, req, cmd, out, pipe,
           produced, proc, rc, regState, batch, par, speed, store, probe >>

\* ------------------------------------------------------------------ lines
Last(s) == s[Len(s)]

Line(kind, text) == [kind |-> kind, text |-> text]

EnabledText(b) == IF b THEN <<"enabled">> ELSE <<"disabled">>

\* str.rstrip(): the line without its trailing whitespace.
RECURSIVE rstrip(_)
rstrip(s) ==
    IF s = <<>> THEN <<>>
    ELSE IF s[Len(s)] = " " THEN rstrip(SubSeq(s, 1, Len(s) - 1))
    ELSE s

\* ------------------------------------------------------------- capabilities
get_whisper_capabilities_cached == toolCaps

\* WhisperStreamCmd with the test of line 270 moved out of the test of line
\* 268.
WhisperStreamCmdUnnested(enable_word_timestamps, enable_highlighting, capabilities) ==
    (IF enable_word_timestamps /\ capabilities.word_timestamps_available
     THEN {"--word_timestamps"} ELSE {})
    \cup
    (IF enable_highlighting /\ capabilities.highlight_words_available
     THEN {"--highlight_words"} ELSE {})

\* The optional flags whisper_stream appends to the command line.
WhisperStreamCmd(enable_word_timestamps, enable_highlighting, capabilities) ==
    IF enable_word_timestamps /\ capabilities.word_timestamps_available
    THEN IF enable_highlighting /\ capabilities.highlight_words_available
         THEN {"--word_timestamps", "--highlight_words"}
         ELSE {"--word_timestamps"}
    ELSE {}

\* The optional flags test_whisper_speed appends to the command line; a
\* setting the request leaves out counts as True.
SpeedTestCmd(test_settings, capabilities) ==
    IF test_settings.word_timestamps /\ capabilities.word_timestamps_available
    THEN IF test_settings.highlighting /\ capabilities.highlight_words_available
         THEN {"--word_timestamps", "--highlight_words"}
         ELSE {"--word_timestamps"}
    ELSE {}

\* --------------------------------------------------------------- registry
job_running(k) == jobs[k] # None

RegistryInsert(k, i) == [jobs EXCEPT ![k] = i]

RegistryPop(k) == [jobs EXCEPT ![k] = None]

\* ------------------------------------------------------------ whisper_stream
Yield(i, lines) == out' = [out EXCEPT ![i] = @ \o lines]

\* A call whisper_stream(book, mp3, wt, hl): a new generator object.
NewInvocation(i, k, wt, hl) ==
    /\ pc[i] = "idle"
    /\ \A j \in Inv : j < i => pc[j] # "idle"
    /\ pc' = [pc EXCEPT ![i] = "start"]
    /\ key' = [key EXCEPT ![i] = k]
    /\ req' = [req EXCEPT ![i] = [wt |-> wt, hl |-> hl]]

\* WsNotFound without the return of line 255: the generator goes on.
WsNotFoundNoReturn(i) ==
    /\ pc[i] = "start"
    /\ key[i][2] \notin files
    /\ Yield(i, << Line("notfound", <<>>) >>)
    /\ pc' = [pc EXCEPT ![i] = "popen"]
    /\ UNCHANGED << files, vtt, toolCaps, budget, jobs, key, req, cmd, pipe,
                    produced, proc, rc, regState, batch, par, speed, store, probe >>

\* Lines 249-255: the source file is missing.
WsNotFound(i) ==
    /\ pc[i] = "start"
    /\ key[i][2] \notin files
    /\ Yield(i, << Line("notfound", <<>>) >>)
    /\ pc' = [pc EXCEPT ![i] = "done"]
    /\ UNCHANGED << files, vtt, toolCaps, budget, jobs, key, req, cmd, pipe,
                    produced, proc, rc, regState, batch, par, speed, store, probe >>

\* Lines 249-276: the command is built and the four header lines are yielded.
WsHeader(i) ==
    /\ pc[i] = "start"
    /\ key[i][2] \in files
    /\ LET capabilities == get_whisper_capabilities_cached
           wt == req[i].wt
           hl == req[i].hl
       IN /\ cmd' = [cmd EXCEPT ![i] = WhisperStreamCmd(wt, hl, capabilities)]
          /\ Yield(i, << Line("starting", <<>>),
                         Line("command", <<>>),
                         Line("word_timestamps",
                              EnabledText(wt /\ capabilities.word_timestamps_available)),
                         Line("word_highlighting",
                              EnabledText(hl /\ capabilities.highlight_words_available)) >>)
    /\ pc' = [pc EXCEPT ![i] = "popen"]
    /\ UNCHANGED << files, vtt, toolCaps, budget, jobs, key, req, pipe,
                    produced, proc, rc, regState, batch, par, speed, store, probe >>

\* Lines 279-280: subprocess.Popen starts the process.
WsPopen(i) ==
    /\ pc[i] = "popen"
    /\ toolCaps.installed
    /\ proc' = [proc EXCEPT ![i] = "running"]
    /\ pc' = [pc EXCEPT ![i] = "register"]
    /\ UNCHANGED << files, vtt, toolCaps, budget, jobs, key, req, cmd, out,
                    pipe, produced, rc, regState, batch, par, speed, store, probe >>

\* Lines 279-280, 311: subprocess.Popen raises: FileNotFoundError when whisper
\* is not on PATH, OSError when the process cannot be created.
WsPopenRaises(i) ==
    /\ pc[i] = "popen"
    /\ pc' = [pc EXCEPT ![i] = "except"]
    /\ UNCHANGED << files, vtt, toolCaps, budget, jobs, key, req, cmd, out,
                    pipe, produced, proc, rc, regState, batch, par, speed,
                    store, probe >>

\* Lines 281-282: with _lock: _jobs[(book, mp3)] = proc.
WsRegister(i) ==
    /\ pc[i] = "register"
    /\ jobs' = RegistryInsert(key[i], i)
    /\ regState' = [regState EXCEPT ![i] = "registered"]
    /\ pc' = [pc EXCEPT ![i] = "read"]
    /\ UNCHANGED << files, vtt, toolCaps, budget, key, req, cmd, out, pipe,
                    produced, proc, rc, batch, par, speed, store, probe >>

\* WsReadLine without the test of lines 287-288: blank lines are yielded too.
WsReadLineKeepsBlank(i) ==
    /\ pc[i] = "read"
    /\ pipe[i] # <<>>
    /\ Yield(i, << Line("tool", rstrip(Head(pipe[i]))) >>)
    /\ pipe' = [pipe EXCEPT ![i] = Tail(@)]
    /\ UNCHANGED << files, vtt, toolCaps, budget, jobs, pc, key, req, cmd,
                    produced, proc, rc, regState, batch, par, speed, store, probe >>

\* Lines 285-291: one readline that returns a line; the line is yielded
\* without its trailing whitespace unless nothing is left of it.
WsReadLine(i) ==
    /\ pc[i] = "read"
    /\ pipe[i] # <<>>
    /\ LET line == rstrip(Head(pipe[i]))
       IN IF line = <<>>
          THEN UNCHANGED out
          ELSE Yield(i, << Line("tool", line) >>)
    /\ pipe' = [pipe EXCEPT ![i] = Tail(@)]
    /\ UNCHANGED << files, vtt, toolCaps, budget, jobs, pc, key, req, cmd,
                    produced, proc, rc, regState, batch, par, speed, store, probe >>

\* Lines 285, 293: readline returns '' (the process has closed its output
\* and everything was read), the loop ends and proc.wait() returns.
WsEndOfOutput(i) ==
    /\ pc[i] = "read"
    /\ pipe[i] = <<>>
    /\ proc[i] = "exited"
    /\ pc' = [pc EXCEPT ![i] = "deregister"]
    /\ UNCHANGED << files, vtt, toolCaps, budget, jobs, key, req, cmd, out,
                    pipe, produced, proc, rc, regState, batch, par, speed,
                    store, probe >>

\* Lines 285, 311: readline raises (the output is not decodable text).
WsReadRaises(i) ==
    /\ pc[i] = "read"
    /\ pipe[i] # <<>>
    /\ pc' = [pc EXCEPT ![i] = "except"]
    /\ UNCHANGED << files, vtt, toolCaps, budget, jobs, key, req, cmd, out,
                    pipe, produced, proc, rc, regState, batch, par, speed,
                    store, probe >>

\* WsDeregister without the pop of line 295.
WsDeregisterNoPop(i) ==
    /\ pc[i] = "deregister"
    /\ pc' = [pc EXCEPT ![i] = "verify"]
    /\ UNCHANGED << files, vtt, toolCaps, budget, jobs, key, req, cmd, out,
                    pipe, produced, proc, rc, regState, batch, par, speed,
                    store, probe >>

\* Lines 294-295: with _lock: _jobs.pop((book, mp3), None).
WsDeregister(i) ==
    /\ pc[i] = "deregister"
    /\ jobs' = RegistryPop(key[i])
    /\ regState' = [regState EXCEPT ![i] = "deregistered"]
    /\ pc' = [pc EXCEPT ![i] = "verify"]
    /\ UNCHANGED << files, vtt, toolCaps, budget, key, req, cmd, out, pipe,
                    produced, proc, rc, batch, par, speed, store, probe >>

\* Lines 297-309: the artifact lines and the final status line.  The Yes/No
\* answer of the black box has_word_timestamps is not part of the line here.
WsVerify(i) ==
    /\ pc[i] = "verify"
    /\ Yield(i,
         (IF key[i] \in vtt
          THEN << Line("success", <<>>), Line("word_level", <<>>) >>
          ELSE << Line("warning", <<>>) >>)
         \o
         (IF rc[i] # 0
          THEN << Line("error", <<"exit code">>) >>
          ELSE << Line("done_success", <<>>) >>))
    /\ pc' = [pc EXCEPT ![i] = "done"]
    /\ UNCHANGED << files, vtt, toolCaps, budget, jobs, key, req, cmd, pipe,
                    produced, proc, rc, regState, batch, par, speed, store, probe >>

\* Lines 311-312: the exception line is yielded.
WsExcept(i) ==
    /\ pc[i] = "except"
    /\ Yield(i, << Line("exception", <<>>) >>)
    /\ pc' = [pc EXCEPT ![i] = "except_pop"]
    /\ UNCHANGED << files, vtt, toolCaps, budget, jobs, key, req, cmd, pipe,
                    produced, proc, rc, regState, batch, par, speed, store, probe >>

\* WsExceptPop without the pop of line 314.
WsExceptNoPop(i) ==
    /\ pc[i] = "except_pop"
    /\ pc' = [pc EXCEPT ![i] = "done"]
    /\ UNCHANGED << files, vtt, toolCaps, budget, jobs, key, req, cmd, out,
                    pipe, produced, proc, rc, regState, batch, par, speed,
                    store, probe >>

\* Lines 313-314: with _lock: _jobs.pop((book, mp3), None).
WsExceptPop(i) ==
    /\ pc[i] = "except_pop"
    /\ jobs' = RegistryPop(key[i])
    /\ regState' = [regState EXCEPT ![i] =
                      IF @ = "registered" THEN "deregistered" ELSE @]
    /\ pc' = [pc EXCEPT ![i] = "done"]
    /\ UNCHANGED << files, vtt, toolCaps, budget, key, req, cmd, out, pipe,
                    produced, proc, rc, batch, par, speed, store, probe >>

\* Line 253: mp3_path.exists() raises OSError (permission denied on the book
\* folder, a name too long for the file system); the statement is outside the
\* try block, so the exception leaves the generator.
WsStatRaises(i) ==
    /\ pc[i] = "start"
    /\ pc' = [pc EXCEPT ![i] = "raised"]
    /\ UNCHANGED << files, vtt, toolCaps, budget, jobs, key, req, cmd, out,
                    pipe, produced, proc, rc, regState, batch, par, speed,
                    store, probe >>

\* The generator is suspended at a yield of the try statement or of its
\* handler, or at the last yield before it: after the header (line 276),
\* after a line of the tool (line 291), after the exception line (line 312).
Suspended(i) ==
    \/ pc[i] = "popen"
    \/ /\ pc[i] = "read"
       /\ LET read == Len(produced[i]) - Len(pipe[i])
          IN read > 0 /\ rstrip(produced[i][read]) # <<>>
    \/ pc[i] = "except_pop"

\* The consumer closes the suspended generator, or drops it, and Python
\* closes it: GeneratorExit is raised at the yield.  It is no Exception, so
\* the handler of line 311 does not run, and the statements after the yield
\* do not run either.
WsClose(i) ==
    /\ Suspended(i)
    /\ pc' = [pc EXCEPT ![i] = "closed"]
    /\ UNCHANGED << files, vtt, toolCaps, budget, jobs, key, req, cmd, out,
                    pipe, produced, proc, rc, regState, batch, par, speed,
                    store, probe >>

\* One step of the generator, taken when its consumer asks for the next line.
WsStep(i) ==
    \/ WsNotFound(i)
    \/ WsStatRaises(i)
    \/ WsHeader(i)
    \/ WsPopen(i)
    \/ WsPopenRaises(i)
    \/ WsRegister(i)
    \/ WsReadLine(i)
    \/ WsEndOfOutput(i)
    \/ WsReadRaises(i)
    \/ WsDeregister(i)
    \/ WsVerify(i)
    \/ WsExcept(i)
    \/ WsExceptPop(i)

\* The generator has returned or raised: its consumer gets no further line.
Ended(i) == pc[i] \in {"done", "raised"}

\* ------------------------------------------------------ the whisper process
\* The process writes one line to its output.
ToolWrite(i, line) ==
    /\ proc[i] = "running"
    /\ budget > 0
    /\ pipe' = [pipe EXCEPT ![i] = Append(@, line)]
    /\ produced' = [produced EXCEPT ![i] = Append(@, line)]
    /\ budget' = budget - 1
    /\ UNCHANGED << files, vtt, toolCaps, jobs, pc, key, req, cmd, out, proc,
                    rc, regState, batch, par, speed, store, probe >>

\* What a process can leave behind: an exit code, and whether it wrote the
\* caption file <mp3 stem>.vtt into the book folder.  The code reads the two
\* separately (lines 299 and 306), so every pairing is possible.
ToolOutcomes == {0, 1} \X BOOLEAN

\* The pairings of a tool that writes the caption file exactly when it
\* exits with code 0.
AgreeingOutcomes == {o \in ToolOutcomes : (o[1] = 0) <=> o[2]}

\* The process ends with one of the given outcomes.
ToolExit(i, outcome) ==
    /\ proc[i] = "running"
    /\ proc' = [proc EXCEPT ![i] = "exited"]
    /\ rc' = [rc EXCEPT ![i] = outcome[1]]
    /\ vtt' = IF outcome[2] THEN vtt \cup {key[i]} ELSE vtt
    /\ UNCHANGED << files, toolCaps, budget, jobs, pc, key, req, cmd,
                    out, pipe, produced, regState, batch, par, speed, store, probe >>

\* ------------------------------------------------------ test_whisper_speed
\* The timeout of the benchmark run, in seconds (lines 216, 236).
SpeedTestTimeout == 120

\* Seconds of audio get_audio_duration can report for the test clip; it
\* reports 0.0 when it can tell nothing (line 149).
AudioDurations == {0, 10}

\* Seconds between the two readings of time.time() (lines 214, 217); the
\* clock is the wall clock, which can stand still or be set back.
ProcessingTimes == {-5, 0, 5, 10}

\* A number that is not an integer is kept exactly, as a fraction <<n, d>> in
\* lowest terms with d > 0.
RECURSIVE GCD(_, _)
GCD(a, b) == IF b = 0 THEN a ELSE GCD(b, a % b)

Fraction(a, b) == << a \div GCD(a, b), b \div GCD(a, b) >>

Zero == << 0, 1 >>

Positive(q) == q[1] > 0

\* SpeedRatio without the test of line 222 for positive values: it divides
\* whenever the division is defined.
SpeedRatioUnguarded(audio_duration, processing_time) ==
    IF processing_time > 0
    THEN Fraction(audio_duration, processing_time)
    ELSE IF processing_time < 0
         THEN Fraction(0 - audio_duration, 0 - processing_time)
         ELSE Zero

\* Line 222: audio_duration / processing_time if both are positive, else 0.
SpeedRatio(audio_duration, processing_time) ==
    IF audio_duration > 0 /\ processing_time > 0
    THEN Fraction(audio_duration, processing_time)
    ELSE Zero

\* What subprocess.run of line 216 can do: return with the exit code of the
\* tool, raise TimeoutExpired, raise something else.
SpeedRuns ==
    [kind : {"returned"}, returncode : {0, 1}]
    \cup [kind : {"timeout", "exception"}, returncode : {0}]

\* Lines 216-245: the dictionary test_whisper_speed returns.
SpeedTestResult(run, processing_time, audio_duration) ==
    CASE run.kind = "returned" ->
           [success |-> run.returncode = 0,
            processing_time |-> processing_time,
            audio_duration |-> audio_duration,
            speed_ratio |-> SpeedRatio(audio_duration, processing_time)]
      [] run.kind = "timeout" ->
           [success |-> FALSE,
            processing_time |-> SpeedTestTimeout,
            audio_duration |-> audio_duration,
            speed_ratio |-> Zero]
      [] run.kind = "exception" ->
           [success |-> FALSE,
            processing_time |-> 0,
            audio_duration |-> audio_duration,
            speed_ratio |-> Zero]

NoResult ==
    [success |-> FALSE, processing_time |-> 0, audio_duration |-> 0,
     speed_ratio |-> Zero]

SpeedIdle ==
    [pc |-> "idle", settings |-> [word_timestamps |-> TRUE, highlighting |-> TRUE],
     cmd |-> {}, run |-> [kind |-> "exception", returncode |-> 0],
     elapsed |-> 0, result |-> NoResult, response |-> ""]

\* Lines 195-212: test_whisper_speed, called by POST /api/whisper/speed-test
\* (line 441), builds the command line of its run.
TestWhisperSpeedCmd(test_settings) ==
    /\ speed.pc \in {"idle", "responded"}
    /\ speed' = [SpeedIdle EXCEPT
                   !.pc = "built", !.settings = test_settings,
                   !.cmd = SpeedTestCmd(test_settings, get_whisper_capabilities_cached)]
    /\ UNCHANGED << envVars, wsVars, batch, par, store, probe >>

\* Lines 214-245: the run ends in one of the three ways, the clip's duration
\* is probed and the result is returned to the route.
TestWhisperSpeedRun(run, processing_time, audio_duration) ==
    /\ speed.pc = "built"
    /\ speed' = [speed EXCEPT
                   !.pc = "measured", !.run = run, !.elapsed = processing_time,
                   !.result = SpeedTestResult(run, processing_time, audio_duration)]
    /\ UNCHANGED << envVars, wsVars, batch, par, store, probe >>

\* ------------------------------------------------- speed test persistence
\* MODEL (line 42).
MODEL == "medium"

Settings == [word_timestamps : BOOLEAN, highlighting : BOOLEAN]

\* Lines 559-567: the key of a model and its settings.
get_speed_test_key(model_name, settings) ==
    << model_name, settings.word_timestamps, settings.highlighting >>

SpeedKeys == { get_speed_test_key(MODEL, settings) : settings \in Settings }

\* SPEED_RATIOS_FILE is absent, or holds a JSON object (kind "dict", the
\* mapping being map), or text that is no JSON ("not_json": cut short, empty),
\* or bytes that are no UTF-8 text ("not_utf8"), or JSON that is no object
\* ("json_list").
File(kind, map) == [kind |-> kind, map |-> map]

EmptyMapping == << >>

CorruptKinds == {"not_json", "not_utf8", "json_list"}

\* Lines 569-575: load_saved_speed_ratios returns a dictionary, returns the
\* list json.loads made of the text, or raises the UnicodeDecodeError of
\* read_text, which is neither a JSONDecodeError nor an IOError.
load_saved_speed_ratios(file) ==
    CASE file.kind = "dict" -> [kind |-> "dict", map |-> file.map]
      [] file.kind = "absent" -> [kind |-> "dict", map |-> EmptyMapping]
      [] file.kind = "not_json" -> [kind |-> "dict", map |-> EmptyMapping]
      [] file.kind = "json_list" -> [kind |-> "list", map |-> EmptyMapping]
      [] file.kind = "not_utf8" -> [kind |-> "raises", map |-> EmptyMapping]

\* all_ratios[key] = data (line 579).
Put(map, k, data) ==
    [x \in (DOMAIN map) \cup {k} |-> IF x = k THEN data ELSE map[x]]

\* What SPEED_RATIOS_FILE.write_text (line 581) can do: write the text; fail
\* to open the file, which is left as it was; fail after the file was opened
\* and so emptied (the disk is full).  The IOError is logged, not raised.
WriteOutcomes == {"written", "open_failed", "write_failed"}

\* save_speed_ratio_data that writes the one record, not the mapping it read.
SaveRecordOnly(file, k, data, write) ==
    LET all_ratios == load_saved_speed_ratios(file)
    IN IF all_ratios.kind # "dict"
       THEN [outcome |-> "raised", file |-> file]
       ELSE [outcome |-> write,
             file |-> CASE write = "written" ->
                             File("dict", Put(EmptyMapping, k, data))
                        [] write = "open_failed" -> file
                        [] write = "write_failed" -> File("not_json", EmptyMapping)]

\* Lines 577-583: save_speed_ratio_data(key, data): what becomes of the call
\* ("raised": the exception of the load, or the TypeError of the assignment
\* to a list, leaves the function) and of the file.
save_speed_ratio_data(file, k, data, write) ==
    LET all_ratios == load_saved_speed_ratios(file)
    IN IF all_ratios.kind # "dict"
       THEN [outcome |-> "raised", file |-> file]
       ELSE [outcome |-> write,
             file |-> CASE write = "written" ->
                             File("dict", Put(all_ratios.map, k, data))
                        [] write = "open_failed" -> file
                        [] write = "write_failed" -> File("not_json", EmptyMapping)]

\* A record of the store (lines 446-453), without its time stamp.
SpeedRecord(result, settings) ==
    [speed_ratio |-> result.speed_ratio,
     model_tested |-> MODEL,
     settings_key_info |-> settings,
     test_audio_duration |-> result.audio_duration,
     test_processing_time |-> result.processing_time]

NoSpeedRecord == SpeedRecord(NoResult, [word_timestamps |-> TRUE, highlighting |-> TRUE])

\* Lines 387-396: the answer of GET /api/speed-ratio for a key: the record
\* (200), not found (404), or failed (500) when the lookup raises.
Lookup(file, k) ==
    LET all_ratios == load_saved_speed_ratios(file)
    IN CASE all_ratios.kind = "raises" -> [status |-> "error", body |-> NoSpeedRecord]
         [] all_ratios.kind = "list" -> [status |-> "not_found", body |-> NoSpeedRecord]
         [] all_ratios.kind = "dict" ->
              IF k \in DOMAIN all_ratios.map
              THEN [status |-> "found", body |-> all_ratios.map[k]]
              ELSE [status |-> "not_found", body |-> NoSpeedRecord]

NoSave ==
    [key |-> get_speed_test_key(MODEL, [word_timestamps |-> TRUE, highlighting |-> TRUE]),
     previous |-> [status |-> "", body |-> NoSpeedRecord],
     before |-> "", outcome |-> "",
     after |-> File("absent", EmptyMapping)]

NoAnswer ==
    [key |-> get_speed_test_key(MODEL, [word_timestamps |-> TRUE, highlighting |-> TRUE]),
     before |-> "", status |-> "", body |-> NoSpeedRecord]

\* A request thread inside save_speed_ratio_data: where it is, its arguments,
\* the file as load_saved_speed_ratios read it (line 578), and what became of
\* the call.
NoWriter ==
    [pc |-> "idle",
     key |-> get_speed_test_key(MODEL, [word_timestamps |-> TRUE, highlighting |-> TRUE]),
     data |-> NoSpeedRecord,
     snapshot |-> File("absent", EmptyMapping),
     outcome |-> ""]

\* The file, with what was asked of it: the record of the latest call of
\* save_speed_ratio_data for each key (saved), whether a call has not written
\* the file (dropped), the latest call (last: its key, what a lookup of the
\* key returned before it, the file before and after it, what became of the
\* call), the latest lookup (answer), and the calls of save_speed_ratio_data
\* that request threads make at the same time (writers).
StoreInit(file) ==
    [file |-> file, saved |-> EmptyMapping, dropped |-> FALSE,
     last |-> NoSave, answer |-> NoAnswer,
     writers |-> [t \in Inv |-> NoWriter]]

\* Persists without the test of success.
PersistsAnyPositiveRatio(result) == Positive(result.speed_ratio)

\* Line 443: the result is saved.
Persists(result) == result.success /\ Positive(result.speed_ratio)

\* Lines 443-490 of POST /api/whisper/speed-test: the result is saved when it
\* is a success with a positive ratio, and the request is answered; an
\* exception that leaves save_speed_ratio_data is answered with status 500.
WhisperSpeedTestRespond(write) ==
    /\ speed.pc = "measured"
    /\ IF Persists(speed.result)
       THEN LET save_key == get_speed_test_key(MODEL, speed.settings)
                data_to_save == SpeedRecord(speed.result, speed.settings)
                done == save_speed_ratio_data(store.file, save_key,
                                              data_to_save, write)
            IN /\ store' = [store EXCEPT
                              !.file = done.file,
                              !.saved = Put(@, save_key, data_to_save),
                              !.dropped = @ \/ done.outcome # "written",
                              !.last = [key |-> save_key,
                                        previous |-> Lookup(store.file, save_key),
                                        before |-> store.file.kind,
                                        outcome |-> done.outcome,
                                        after |-> done.file]]
               /\ speed' = [speed EXCEPT
                              !.pc = "responded",
                              !.response = IF done.outcome = "raised"
                                           THEN "error" ELSE "success"]
       ELSE /\ write = "written"
            /\ UNCHANGED store
            /\ speed' = [speed EXCEPT !.pc = "responded", !.response = "failure"]
    /\ UNCHANGED << envVars, wsVars, batch, par, probe >>

\* GET /api/speed-ratio (lines 372-396) for the model MODEL.
get_speed_ratio_route(query_settings) ==
    LET key_to_find == get_speed_test_key(MODEL, query_settings)
        found == Lookup(store.file, key_to_find)
    IN /\ store' = [store EXCEPT
                      !.answer = [key |-> key_to_find,
                                  before |-> store.file.kind,
                                  status |-> found.status,
                                  body |-> found.body]]
       /\ UNCHANGED << envVars, wsVars, batch, par, speed, probe >>

\* Seconds the benchmark took in the tests of requests served at the same
\* time; the clip has 10 seconds of audio.
ConcurrentTimes == {5, 10}

\* Line 578, in the thread t of a request POST /api/whisper/speed-test whose
\* test was a success (line 443): save_speed_ratio_data(key, data) reads the
\* whole file.  No lock is held from here to the write of line 581.
SaveLoad(t, settings, processing_time) ==
    /\ store.writers[t].pc = "idle"
    /\ LET result == SpeedTestResult([kind |-> "returned", returncode |-> 0],
                                     processing_time, 10)
       IN /\ Persists(result)
          /\ store' = [store EXCEPT
                         !.writers[t] =
                            [pc |-> "loaded",
                             key |-> get_speed_test_key(MODEL, settings),
                             data |-> SpeedRecord(result, settings),
                             snapshot |-> store.file,
                             outcome |-> ""]]
    /\ UNCHANGED << envVars, wsVars, batch, par, speed, probe >>

\* Lines 579-583, in thread t: the record is put into the mapping that was
\* read, and the whole mapping is written over the file as it is now.
SaveWrite(t, write) ==
    /\ store.writers[t].pc = "loaded"
    /\ LET w == store.writers[t]
           done == save_speed_ratio_data(w.snapshot, w.key, w.data, write)
       IN store' = [store EXCEPT
                      !.file = IF done.outcome \in {"written", "write_failed"}
                               THEN done.file ELSE @,
                      !.writers[t] = [w EXCEPT !.pc = "done",
                                               !.outcome = done.outcome]]
    /\ UNCHANGED << envVars, wsVars, batch, par, speed, probe >>

\* ------------------------------------------ get_whisper_capabilities_cached
NoCapabilities ==
    [word_timestamps_available |-> FALSE, highlight_words_available |-> FALSE,
     installed |-> FALSE]

\* What subprocess.run(['whisper', '--help'], ..., timeout=10) of lines 54-55
\* can do: return with exit code 0 or another, the output naming each of the
\* two options or not; raise FileNotFoundError (no whisper on PATH); raise
\* TimeoutExpired.
HelpOutcomes ==
    [kind : {"exit_zero", "exit_nonzero"},
     word_timestamps : BOOLEAN, highlight_words : BOOLEAN]
    \cup [kind : {"missing", "timeout"},
          word_timestamps : {FALSE}, highlight_words : {FALSE}]

\* Lines 53-69: the body of get_whisper_capabilities_cached.
DetectCapabilities(help) ==
    IF help.kind \in {"missing", "timeout"}
    THEN NoCapabilities
    ELSE [word_timestamps_available |-> help.word_timestamps,
          highlight_words_available |-> help.highlight_words,
          installed |-> help.kind = "exit_zero"]

\* The cache of @lru_cache(maxsize=1) (line 50) and the calls of the function
\* by the threads of the server: pool workers at line 267, request threads at
\* lines 197 and 370.  runs counts the runs of the help command; help is
\* what became of the run of each thread; first is the value the first call
\* to return has returned.
ProbeIdle ==
    [cache |-> [full |-> FALSE, value |-> NoCapabilities],
     runs |-> 0,
     pc |-> [t \in Inv |-> "idle"],
     help |-> [t \in Inv |-> [kind |-> "missing", word_timestamps |-> FALSE,
                              highlight_words |-> FALSE]],
     result |-> [t \in Inv |-> NoCapabilities],
     first |-> [set |-> FALSE, value |-> NoCapabilities]]

Returned(t, value) ==
    [probe EXCEPT !.pc[t] = "returned",
                  !.result[t] = value,
                  !.first = IF @.set THEN @ ELSE [set |-> TRUE, value |-> value]]

\* A thread calls the function: lru_cache returns the cached value, or, the
\* cache being empty, calls the body, which starts the help command.  The
\* lock of lru_cache is not held while the body runs.
CapsCall(t) ==
    /\ probe.pc[t] \in {"idle", "returned"}
    /\ probe' = IF probe.cache.full
                THEN Returned(t, probe.cache.value)
                ELSE [probe EXCEPT !.pc[t] = "running", !.runs = @ + 1]
    /\ UNCHANGED << envVars, wsVars, batch, par, speed, store >>

\* The help command of a thread ends and the body makes its dictionary.
CapsHelp(t, help) ==
    /\ probe.pc[t] = "running"
    /\ probe' = [probe EXCEPT !.pc[t] = "computed",
                              !.help[t] = help,
                              !.result[t] = DetectCapabilities(help)]
    /\ UNCHANGED << envVars, wsVars, batch, par, speed, store >>

\* The body has returned: lru_cache stores the value unless another thread
\* has stored one meanwhile, and returns the value of this call's body.
CapsReturn(t) ==
    /\ probe.pc[t] = "computed"
    /\ probe' = [Returned(t, probe.result[t]) EXCEPT
                   !.cache = IF @.full THEN @
                             ELSE [full |-> TRUE, value |-> probe.result[t]]]
    /\ UNCHANGED << envVars, wsVars, batch, par, speed, store >>

\* ------------------------------------------------- whisper_stream_parallel
\* A line of the parallel stream: a banner of an item, or a line of the item's
\* whisper_stream tagged with the item.
ParLine(kind, item, line) == [kind |-> kind, item |-> item, line |-> line]

NoLine == Line("", <<>>)

ParIdle ==
    [pc |-> "idle", book |-> "b1", items |-> <<>>, max_workers |-> 1,
     submitted |-> 0, queue |-> <<>>,
     fut |-> [n \in Inv |-> "none"], inv |-> [n \in Inv |-> None],
     prefinished |-> {}, early |-> {}, waiter |-> <<>>, order |-> <<>>,
     out |-> <<>>,
     request |-> [wt |-> TRUE, hl |-> TRUE]]

\* The call whisper_stream_parallel(book, mp3_files, max_workers) (line 316):
\* a new generator object; nothing of its body has run.
ParStarted(book, mp3_files, max_workers) ==
    [par EXCEPT !.pc = "start", !.book = book, !.items = mp3_files,
                !.max_workers = max_workers]

ParCall(book, mp3_files, max_workers) ==
    /\ par.pc = "idle"
    /\ par' = ParStarted(book, mp3_files, max_workers)

\* Line 318: the first line of the stream.
ParBegin ==
    /\ par.pc = "start"
    /\ par' = [par EXCEPT !.pc = "submit",
                          !.out = << ParLine("starting", "", NoLine) >>]
    /\ UNCHANGED << envVars, wsVars, batch, speed, store, probe >>

\* Lines 327-329: executor.submit(transcribe_single, mp3) for the next item:
\* a pending future, its work item at the end of the executor's queue.
ParSubmit ==
    /\ par.pc = "submit"
    /\ par.submitted < Len(par.items)
    /\ LET n == par.submitted + 1
       IN par' = [par EXCEPT !.submitted = n,
                             !.fut[n] = "pending",
                             !.queue = Append(@, n)]
    /\ UNCHANGED << envVars, wsVars, batch, speed, store, probe >>

FutureDone(n) == par.fut[n] \in {"finished", "raised"}

\* Line 332: concurrent.futures.as_completed is entered: the futures already
\* done are set aside, to be yielded first, and a waiter is installed on the
\* others, which collects them in the order in which they finish.
ParAsCompleted ==
    /\ par.pc = "submit"
    /\ par.submitted = Len(par.items)
    /\ LET finished == {n \in 1..Len(par.items) : FutureDone(n)}
       IN par' = [par EXCEPT !.pc = "iterate",
                             !.prefinished = finished,
                             !.early = finished]
    /\ UNCHANGED << envVars, wsVars, batch, speed, store, probe >>

\* Lines 320-325, run by a thread of the pool (at most max_workers threads):
\* the oldest queued work item is started; transcribe_single calls
\* whisper_stream(book, mp3) with the default flags.
WorkerTake(i) ==
    /\ par.queue # <<>>
    /\ Cardinality({n \in Inv : par.fut[n] = "running"}) < par.max_workers
    /\ LET n == Head(par.queue)
       IN /\ NewInvocation(i, <<par.book, par.items[n]>>, TRUE, TRUE)
          /\ par' = [par EXCEPT !.queue = Tail(@),
                                !.fut[n] = "running",
                                !.inv[n] = i]
    /\ UNCHANGED << envVars, jobs, cmd, out, pipe, produced, proc, rc,
                    regState, batch, speed, store, probe >>

\* The future of item n is done: the waiter of as_completed, when installed,
\* is told.
FinishFuture(n, state) ==
    par' = [par EXCEPT !.fut[n] = state,
                       !.order = Append(@, n),
                       !.waiter = IF par.pc = "iterate" THEN Append(@, n) ELSE @]

\* Line 325: transcribe_single has drained the generator and returns
\* (mp3, output_lines).
WorkerReturn(n) ==
    /\ par.fut[n] = "running"
    /\ pc[par.inv[n]] = "done"
    /\ FinishFuture(n, "finished")
    /\ UNCHANGED << envVars, wsVars, batch, speed, store, probe >>

\* Line 323: the generator raised, and so does transcribe_single.
WorkerRaises(n) ==
    /\ par.fut[n] = "running"
    /\ pc[par.inv[n]] = "raised"
    /\ FinishFuture(n, "raised")
    /\ UNCHANGED << envVars, wsVars, batch, speed, store, probe >>

\* Tagged with each line put before the lines collected so far.
RECURSIVE TaggedNewestFirst(_, _)
TaggedNewestFirst(item, lines) ==
    IF lines = <<>> THEN <<>>
    ELSE TaggedNewestFirst(item, Tail(lines))
         \o << ParLine("line", item, Head(lines)) >>

\* Lines 320-325: the lines of an item, each tagged with the item.
RECURSIVE Tagged(_, _)
Tagged(item, lines) ==
    IF lines = <<>> THEN <<>>
    ELSE << ParLine("line", item, Head(lines)) >> \o Tagged(item, Tail(lines))

\* ParBlock without the end banner of line 343.
ParBlockUnclosedError(n) ==
    LET mp3 == par.items[n]
    IN IF par.fut[n] = "finished"
       THEN << ParLine("completed", mp3, NoLine) >>
            \o Tagged(mp3, out[par.inv[n]])
            \o << ParLine("end", mp3, NoLine) >>
       ELSE << ParLine("error", mp3, NoLine),
               ParLine("exception", mp3, NoLine) >>

\* Lines 333-343: the lines yielded for the done future of item n.
ParBlock(n) ==
    LET mp3 == par.items[n]
    IN IF par.fut[n] = "finished"
       THEN << ParLine("completed", mp3, NoLine) >>
            \o Tagged(mp3, out[par.inv[n]])
            \o << ParLine("end", mp3, NoLine) >>
       ELSE << ParLine("error", mp3, NoLine),
               ParLine("exception", mp3, NoLine),
               ParLine("end_error", mp3, NoLine) >>

\* Lines 332-343: as_completed yields a future that was done when it was
\* entered; these come in the iteration order of a set of futures.
ParYieldPrefinished(n) ==
    /\ par.pc = "iterate"
    /\ n \in par.prefinished
    /\ par' = [par EXCEPT !.prefinished = @ \ {n},
                          !.out = @ \o ParBlock(n)]
    /\ UNCHANGED << envVars, wsVars, batch, speed, store, probe >>

\* ParYieldCompleted taking the future that finished last.
ParYieldLatest ==
    /\ par.pc = "iterate"
    /\ par.prefinished = {}
    /\ par.waiter # <<>>
    /\ par' = [par EXCEPT !.waiter = SubSeq(@, 1, Len(@) - 1),
                          !.out = @ \o ParBlock(Last(par.waiter))]
    /\ UNCHANGED << envVars, wsVars, batch, speed, store, probe >>

\* Lines 332-343: as_completed yields the next future its waiter collected.
ParYieldCompleted ==
    /\ par.pc = "iterate"
    /\ par.prefinished = {}
    /\ par.waiter # <<>>
    /\ par' = [par EXCEPT !.waiter = Tail(@),
                          !.out = @ \o ParBlock(Head(par.waiter))]
    /\ UNCHANGED << envVars, wsVars, batch, speed, store, probe >>

\* Lines 327, 332: every future was yielded; the executor is shut down and the
\* generator returns.
ParEnd ==
    /\ par.pc = "iterate"
    /\ par.prefinished = {}
    /\ par.waiter = <<>>
    /\ \A n \in 1..Len(par.items) : FutureDone(n)
    /\ par' = [par EXCEPT !.pc = "done"]
    /\ UNCHANGED << envVars, wsVars, batch, speed, store, probe >>

\* ------------------------------------------------------------------ routes
\* The run creates at most MaxInv generators: a request is taken up only while
\* generators are left for every item it will start.
Reserved ==
    (IF batch.pc = "running" THEN Len(batch.files) ELSE 0)
    + (IF par.pc = "idle" THEN 0
       ELSE Cardinality({n \in 1..Len(par.items) : par.fut[n] \in {"none", "pending"}}))

Free == Cardinality({i \in Inv : pc[i] = "idle"}) - Reserved

\* list_mp3s (lines 74-75) returns the names sorted.
Mp3Order == << "m1", "m2", "m3" >>

\* Line 514: the files of the book that have no caption file, sorted.
FilesToProcess(book) ==
    SelectSeq(Mp3Order, LAMBDA m : m \in files /\ <<book, m>> \notin vtt)

\* POST /gen_one (lines 492-502).
stream_single_caption_route(book, mp3, wt, hl) ==
    /\ Free >= 1
    /\ <<book, mp3>> \notin vtt
    /\ \E i \in Inv : NewInvocation(i, <<book, mp3>>, wt, hl)
    /\ UNCHANGED << envVars, jobs, cmd, out, pipe, produced, proc, rc,
                    regState, batch, par, speed, store, probe >>

BatchIdle ==
    [pc |-> "idle", book |-> "b1", files |-> <<>>, cur |-> None,
     wt |-> TRUE, hl |-> TRUE]

\* POST /gen_all (lines 504-527): nothing to do, the parallel generator, or
\* the generator batch().  The flags of the request are not among the
\* arguments of whisper_stream_parallel (line 520); par.request keeps them
\* beside the generator, which never reads them.
stream_book_captions_route(book, parallel, max_workers, wt, hl) ==
    LET files_to_process == FilesToProcess(book)
    IN /\ files_to_process # <<>>
       /\ Free >= Len(files_to_process)
       /\ IF parallel /\ Len(files_to_process) > 1
          THEN /\ par.pc = "idle"
               /\ par' = [ParStarted(book, files_to_process, max_workers)
                            EXCEPT !.request = [wt |-> wt, hl |-> hl]]
               /\ UNCHANGED batch
          ELSE /\ batch.pc = "idle"
               /\ batch' = [pc |-> "running", book |-> book,
                            files |-> files_to_process, cur |-> None,
                            wt |-> wt, hl |-> hl]
               /\ UNCHANGED par
       /\ UNCHANGED << envVars, wsVars, speed, store, probe >>

\* Lines 524-526: batch() yields the banner of the next file and delegates to
\* a new whisper_stream generator, once the previous one has returned.
BatchNextFile(i) ==
    /\ batch.pc = "running"
    /\ batch.files # <<>>
    /\ IF batch.cur = None THEN TRUE ELSE pc[batch.cur] = "done"
    /\ NewInvocation(i, <<batch.book, Head(batch.files)>>, batch.wt, batch.hl)
    /\ batch' = [batch EXCEPT !.files = Tail(@), !.cur = i]
    /\ UNCHANGED << envVars, jobs, cmd, out, pipe, produced, proc, rc,
                    regState, par, speed, store, probe >>

\* Lines 524-526: the last generator has returned, or one has raised, which
\* ends batch() too.
BatchEnd ==
    /\ batch.pc = "running"
    /\ batch.cur # None
    /\ IF pc[batch.cur] = "done" THEN batch.files = <<>>
                                ELSE pc[batch.cur] = "raised"
    /\ batch' = [batch EXCEPT !.pc = "done"]
    /\ UNCHANGED << envVars, wsVars, par, speed, store, probe >>

\* ---------------------------------------------------------- specifications
InitInvocations ==
    /\ jobs = [k \in Keys |-> None]
    /\ pc = [i \in Inv |-> "idle"]
    /\ key = [i \in Inv |-> <<"b1", "m1">>]
    /\ req = [i \in Inv |-> [wt |-> TRUE, hl |-> TRUE]]
    /\ cmd = [i \in Inv |-> {}]
    /\ out = [i \in Inv |-> <<>>]
    /\ pipe = [i \in Inv |-> <<>>]
    /\ produced = [i \in Inv |-> <<>>]
    /\ proc = [i \in Inv |-> "none"]
    /\ rc = [i \in Inv |-> 0]
    /\ regState = [i \in Inv |-> "never"]
    /\ batch = BatchIdle
    /\ par = ParIdle
    /\ speed = SpeedIdle

\* No speed ratio was saved yet, and no thread has asked for the capabilities.
InitServices ==
    /\ store = StoreInit(File("absent", EmptyMapping))
    /\ probe = ProbeIdle

\* The steps of the whisper_stream generators and of their processes; the
\* processes write lines drawn from `lines`.
RunStreams(lines, outcomes) ==
    \/ \E i \in Inv : WsStep(i)
    \/ \E i \in Inv : \E line \in lines : ToolWrite(i, line)
    \/ \E i \in Inv : \E outcome \in outcomes : ToolExit(i, outcome)

\* The steps of batch().
RunBatch ==
    \/ \E i \in Inv : BatchNextFile(i)
    \/ BatchEnd

\* The steps of whisper_stream_parallel and of the threads of its pool.
RunParallel ==
    \/ ParBegin
    \/ ParSubmit
    \/ ParAsCompleted
    \/ \E i \in Inv : WorkerTake(i)
    \/ \E n \in Inv : WorkerReturn(n)
    \/ \E n \in Inv : WorkerRaises(n)
    \/ \E n \in Inv : ParYieldPrefinished(n)
    \/ ParYieldCompleted
    \/ ParEnd

AllCapabilities ==
    [word_timestamps_available |-> TRUE, highlight_words_available |-> TRUE,
     installed |-> TRUE]

\* The server: requests of the three kinds arrive at any time.
Init ==
    /\ files = {"m1", "m2"}
    /\ vtt = {}
    /\ toolCaps = AllCapabilities
    /\ budget = MaxServerLines
    /\ InitInvocations
    /\ InitServices

Next ==
    \/ \E b \in Books, m \in Mp3s :
         stream_single_caption_route(b, m, TRUE, TRUE)
    \/ \E b \in Books, parallel \in BOOLEAN, max_workers \in 1..DefaultMaxWorkers :
         stream_book_captions_route(b, parallel, max_workers, TRUE, TRUE)
    \/ RunStreams({<<"a">>}, ToolOutcomes)
    \/ RunBatch
    \/ RunParallel

Spec == Init /\ [][Next]_vars

\* Requests for single files only, which may name the same file.
NextOverlap ==
    \/ \E b \in Books, m \in {"m1", "m3"} :
         stream_single_caption_route(b, m, TRUE, TRUE)
    \/ RunStreams({<<"a">>}, ToolOutcomes)

SpecOverlap == Init /\ [][NextOverlap]_vars

\* One request with any flags: POST /gen_all, served in parallel or in
\* sequence, or POST /gen_one.
NextBatch ==
    \/ /\ \A i \in Inv : pc[i] = "idle"
       /\ \E b \in Books, wt \in BOOLEAN, hl \in BOOLEAN :
            \/ \E parallel \in BOOLEAN, max_workers \in 1..DefaultMaxWorkers :
                 stream_book_captions_route(b, parallel, max_workers, wt, hl)
            \/ \E m \in Mp3s : stream_single_caption_route(b, m, wt, hl)
    \/ RunStreams({<<"a">>}, AgreeingOutcomes)
    \/ RunBatch
    \/ RunParallel

SpecBatch == Init /\ [][NextBatch]_vars

\* One call of whisper_stream through /gen_one, with any flags, any
\* capabilities of the tool and any output of the process.
InitSingle ==
    /\ files = {"m1"}
    /\ vtt = {}
    /\ toolCaps \in Capabilities
    /\ budget = MaxLines
    /\ InitInvocations
    /\ InitServices

NextSingle ==
    \/ /\ \A i \in Inv : pc[i] = "idle"
       /\ \E b \in Books, m \in {"m1", "m3"}, wt \in BOOLEAN, hl \in BOOLEAN :
            stream_single_caption_route(b, m, wt, hl)
    \/ RunStreams(ToolLines, ToolOutcomes)
    \/ /\ \A i \in Inv : pc[i] = "idle"
       /\ \E wt \in BOOLEAN, hl \in BOOLEAN :
            TestWhisperSpeedCmd([word_timestamps |-> wt, highlighting |-> hl])

SpecSingle == InitSingle /\ [][NextSingle]_vars

\* One call of whisper_stream_parallel with any list of distinct items.  The
\* banners do not depend on how a tool's exit code and caption file pair up,
\* so the tool here writes the file exactly when it exits with code 0.
RECURSIVE DistinctSeqs(_, _)
DistinctSeqs(S, n) ==
    IF n = 0 THEN { <<>> }
    ELSE { <<>> } \cup UNION { { <<x>> \o t : t \in DistinctSeqs(S \ {x}, n - 1) } : x \in S }

\* The two files that exist, m1 and m2, are treated alike by every step, so
\* of the lists that differ only by exchanging the two, the one that names m1
\* first is taken.
ItemLists ==
    { s \in DistinctSeqs(Mp3s, MaxInv) \ { <<>> } :
        \A p \in 1..Len(s) : s[p] = "m2" => \E q \in 1..(p - 1) : s[q] = "m1" }

NextParallel ==
    \/ \E b \in Books, mp3_files \in ItemLists,
          max_workers \in 1..DefaultMaxWorkers :
         /\ ParCall(b, mp3_files, max_workers)
         /\ UNCHANGED << envVars, wsVars, batch, speed, store, probe >>
    \/ RunStreams({<<"a">>}, AgreeingOutcomes)
    \/ RunParallel

SpecParallel == Init /\ [][NextParallel]_vars

\* Requests for single files whose consumer may go away before the end.
NextAbandon ==
    \/ \E b \in Books, m \in {"m1", "m3"} :
         stream_single_caption_route(b, m, TRUE, TRUE)
    \/ RunStreams({<<"a">>}, ToolOutcomes)
    \/ \E i \in Inv : WsClose(i)

SpecAbandon == Init /\ [][NextAbandon]_vars

\* One request, for a single file or for the files of a book in parallel,
\* where every consumer keeps asking for the next line (the server writes the
\* response to its end, a worker of the pool drains its generator in the
\* loop of line 323) and every process that was started exits.  Whether the
\* generators come to their end does not depend on how a tool's exit code and
\* caption file pair up, so the tool here writes the file exactly when it
\* exits with code 0.
NextLive ==
    \/ /\ \A i \in Inv : pc[i] = "idle"
       /\ par.pc = "idle"
       /\ \/ \E b \in Books, m \in {"m1", "m3"} :
               stream_single_caption_route(b, m, TRUE, TRUE)
          \/ \E b \in Books, max_workers \in 1..DefaultMaxWorkers :
               stream_book_captions_route(b, TRUE, max_workers, TRUE, TRUE)
    \/ RunStreams({<<"a">>}, AgreeingOutcomes)
    \/ RunParallel

\* A step of a generator, of a process or of the pool is taken as long as
\* one can be taken: no thread and no process stops for good while it can
\* go on.
FairLive == WF_vars(RunStreams({<<"a">>}, AgreeingOutcomes) \/ RunParallel)

SpecLive == Init /\ [][NextLive]_vars /\ FairLive

\* Speed tests, one after the other, and lookups of their records; the file
\* of the store starts absent or damaged.
InitSpeed ==
    /\ files = {"m1"}
    /\ vtt = {}
    /\ toolCaps = AllCapabilities
    /\ budget = MaxServerLines
    /\ InitInvocations
    /\ \E kind \in {"absent"} \cup CorruptKinds :
         store = StoreInit(File(kind, EmptyMapping))
    /\ probe = ProbeIdle

SpeedTestSettings == { settings \in Settings : settings.word_timestamps }

NextSpeed ==
    \/ \E test_settings \in SpeedTestSettings : TestWhisperSpeedCmd(test_settings)
    \/ \E run \in SpeedRuns, processing_time \in ProcessingTimes,
          audio_duration \in AudioDurations :
         TestWhisperSpeedRun(run, processing_time, audio_duration)
    \/ \E write \in WriteOutcomes : WhisperSpeedTestRespond(write)
    \/ \E query_settings \in SpeedTestSettings : get_speed_ratio_route(query_settings)

SpecSpeed == InitSpeed /\ [][NextSpeed]_vars

\* The record a speed test has left in the store for the settings without
\* word timestamps and highlighting.
StoredKey == get_speed_test_key(MODEL, [word_timestamps |-> FALSE, highlighting |-> FALSE])

StoredRecord ==
    SpeedRecord(SpeedTestResult([kind |-> "returned", returncode |-> 0], 10, 10),
                [word_timestamps |-> FALSE, highlighting |-> FALSE])

\* Request threads that save the records of their speed tests at any time;
\* the store starts with the one record.
InitSave ==
    /\ files = {"m1"}
    /\ vtt = {}
    /\ toolCaps = AllCapabilities
    /\ budget = MaxServerLines
    /\ InitInvocations
    /\ store = StoreInit(File("dict", Put(EmptyMapping, StoredKey, StoredRecord)))
    /\ probe = ProbeIdle

NextSave ==
    \/ \E t \in Inv, settings \in Settings, processing_time \in ConcurrentTimes :
         SaveLoad(t, settings, processing_time)
    \/ \E t \in Inv, write \in WriteOutcomes : SaveWrite(t, write)

SpecSave == InitSave /\ [][NextSave]_vars

\* Threads that call get_whisper_capabilities_cached at any time.
NextProbe ==
    \/ \E t \in Inv : CapsCall(t)
    \/ \E t \in Inv, help \in HelpOutcomes : CapsHelp(t, help)
    \/ \E t \in Inv : CapsReturn(t)

SpecProbe == Init /\ [][NextProbe]_vars

\* ------------------------------------------------------------------ claims
Kinds(lines) == { lines[n].kind : n \in 1..Len(lines) }

\* The invocations that hold a registration of key k of their own: they have
\* run lines 281-282 and not yet lines 294-295 or 313-314.
Registered(k) == { i \in Inv : key[i] = k /\ regState[i] = "registered" }

\* C1: of the whisper_stream invocations for one key that overlap, only one
\* registers (the other is rejected), and the entry of a registered invocation
\* is never replaced by another invocation's.
C1_OneRegistrationPerKey ==
    \A k \in Keys :
        /\ Cardinality(Registered(k)) <= 1
        /\ \A i \in Registered(k) : jobs[k] = i

\* C2: for every key, at most one whisper process started by whisper_stream
\* for that key is running.
C2_OneProcessPerKey ==
    \A k \in Keys :
        Cardinality({ i \in Inv : key[i] = k /\ proc[i] = "running" }) <= 1

\* C3: once an invocation that registered its key has ended (success, tool
\* failure, or an exception while starting or reading the tool), the registry
\* does not hold its entry: no entry outlives the invocation that made it.
C3_NoEntryOutlivesInvocation ==
    \A i \in Inv :
        Ended(i) => /\ regState[i] # "registered"
                    /\ jobs[key[i]] # i

\* An invocation has ended by an exception raised while reading the tool,
\* after it had registered its key and while a second invocation for the same
\* key was under way.
C3_Witness ==
    \E i, j \in Inv :
        /\ i # j
        /\ key[i] = key[j]
        /\ pc[i] = "done"
        /\ regState[i] = "deregistered"
        /\ Last(out[i]).kind = "exception"
        /\ regState[j] # "never"

\* C4: job_running(k) is true exactly between a runner's registration of k
\* and that runner's deregistration of k.
C4_RunningExactlyWhileRegistered ==
    \A k \in Keys : job_running(k) <=> Registered(k) # {}

\* C5: when the source file is missing as whisper_stream starts, the stream is
\* the one error line, no process is started, and the key is never put in the
\* registry.
C5_MissingSource ==
    \A i \in Inv :
        (pc[i] \notin {"idle", "start", "raised"} /\ key[i][2] \notin files)
        => /\ pc[i] = "done"
           /\ out[i] = << Line("notfound", <<>>) >>
           /\ proc[i] = "none"
           /\ regState[i] = "never"
           /\ ~job_running(key[i])

\* A call for a missing file has ended while a call for a file that exists
\* holds its registration.
C5_Witness ==
    \E i, j \in Inv :
        /\ pc[i] = "done"
        /\ key[i][2] \notin files
        /\ regState[j] = "registered"

\* The lines of tool output an invocation has read: those written and no
\* longer in the pipe.
ReadSoFar(i) == SubSeq(produced[i], 1, Len(produced[i]) - Len(pipe[i]))

\* A blank line: nothing but whitespace.
IsBlank(line) == \A n \in 1..Len(line) : line[n] = " "

NonBlank(lines) == SelectSeq(lines, LAMBDA line : ~IsBlank(line))

\* The texts of the lines yielded after the four header lines and before the
\* status lines.
Narrated(i) ==
    LET body == SelectSeq(out[i], LAMBDA l : l.kind = "tool")
    IN [n \in 1..Len(body) |-> body[n].text]

\* The tool lines stand together, right after the header.
ToolLinesAfterHeader(i) ==
    \A n \in 1..Len(out[i]) :
        out[i][n].kind = "tool" <=> (4 < n /\ n <= 4 + Len(Narrated(i)))

\* y is line without its trailing whitespace.
IsStripped(line, y) ==
    /\ Len(y) <= Len(line)
    /\ SubSeq(line, 1, Len(y)) = y
    /\ \A n \in (Len(y) + 1)..Len(line) : line[n] = " "
    /\ y # <<>> /\ y[Len(y)] # " "

\* An invocation ended with the status line of the exit code.
EndedWithStatus(i) ==
    /\ pc[i] = "done"
    /\ Last(out[i]).kind \in {"error", "done_success"}

\* The process output has been read to its end.
AtEndOfOutput(i) == pc[i] \in {"deregister", "verify"} \/ EndedWithStatus(i)

\* C6 as stated: the lines yielded between the header and the status lines are
\* exactly the non-blank lines of the tool, each once, in the tool's order.
C6_YieldsExactlyNonBlankLines ==
    \A i \in Inv :
        AtEndOfOutput(i) => Narrated(i) = NonBlank(produced[i])

\* C6 as amended: the lines yielded between the header and the status lines
\* are the non-blank lines of the tool without their trailing whitespace, each
\* once, in the tool's order; this holds of the lines read so far at any time.
C6_YieldsStrippedNonBlankLines ==
    \A i \in Inv :
        LET want == NonBlank(ReadSoFar(i))
            got == Narrated(i)
        IN /\ Len(got) = Len(want)
           /\ \A n \in 1..Len(got) : IsStripped(want[n], got[n])
           /\ ToolLinesAfterHeader(i)

\* The output was read to its end and held a blank line, a line with trailing
\* whitespace and so two lines, of which one was dropped.
C6_Witness ==
    \E i \in Inv :
        /\ AtEndOfOutput(i)
        /\ Len(produced[i]) = MaxLines
        /\ \E n \in 1..Len(produced[i]) : IsBlank(produced[i][n])
        /\ \E n \in 1..Len(produced[i]) :
             /\ ~IsBlank(produced[i][n])
             /\ Last(produced[i][n]) = " "
        /\ Len(Narrated(i)) = Len(produced[i]) - 1

\* C7: the stream of an invocation whose process has exited ends with a status
\* line that tells success exactly when the exit code is zero and failure
\* exactly when it is not, and the stream never reports success and failure
\* of the same run (SUCCESS with ERROR, or WARNING with DONE - SUCCESS).
C7_OneVerdictPerRun ==
    \A i \in Inv :
        EndedWithStatus(i) =>
            /\ Last(out[i]).kind = "done_success" <=> rc[i] = 0
            /\ Last(out[i]).kind = "error" <=> rc[i] # 0
            /\ ~({"success", "error"} \subseteq Kinds(out[i]))
            /\ ~({"warning", "done_success"} \subseteq Kinds(out[i]))

\* The command line of invocation i has been built.
CmdBuilt(i) == pc[i] \notin {"idle", "start", "raised"} /\ key[i][2] \in files

Banners(n, kinds) ==
    { p \in 1..Len(par.out) :
        par.out[p].item = par.items[n] /\ par.out[p].kind \in kinds }

Items == 1..Len(par.items)

\* C9: when the stream of whisper_stream_parallel ends, every item has been
\* run and has exactly one opening banner (COMPLETED or ERROR) and exactly one
\* matching end banner after it; an item whose worker returned has the normal
\* banners whatever became of the other items.
C9_EveryItemReportedOnce ==
    par.pc = "done" =>
        \A n \in Items :
            LET opens == Banners(n, {"completed", "error"})
                ends == Banners(n, {"end", "end_error"})
            IN /\ FutureDone(n)
               /\ Cardinality(opens) = 1
               /\ Cardinality(ends) = 1
               /\ \A p \in opens, q \in ends :
                    /\ p < q
                    /\ par.out[p].kind = "completed" <=> par.out[q].kind = "end"
                    /\ par.out[p].kind = "completed" <=> par.fut[n] = "finished"
                    /\ par.out[p].kind = "error" <=> par.fut[n] = "raised"

\* The stream has ended for a list of items of which one made its worker
\* raise and another had its tool fail.
C9_Witness ==
    /\ par.pc = "done"
    /\ \E n, m \in Items :
         /\ par.fut[n] = "raised"
         /\ par.fut[m] = "finished"
         /\ rc[par.inv[m]] # 0
         /\ Last(out[par.inv[m]]).kind = "error"

\* The items in the order of their opening banners in the parallel stream.
BannerOrder ==
    LET opens == SelectSeq(par.out, LAMBDA l : l.kind \in {"completed", "error"})
    IN [p \in 1..Len(opens) |-> CHOOSE n \in Items : par.items[n] = opens[p].item]

\* The place of item n in sequence s, 0 when it is not in it.
Place(s, n) ==
    IF \E p \in 1..Len(s) : s[p] = n
    THEN CHOOSE p \in 1..Len(s) : s[p] = n
    ELSE 0

\* C10 as stated: the banner blocks come in the order in which the workers
\* finish, and none before its worker has finished: the items in banner order
\* are the first items of the completion order.
C10_BannersInCompletionOrder ==
    /\ Len(BannerOrder) <= Len(par.order)
    /\ \A p \in 1..Len(BannerOrder) : BannerOrder[p] = par.order[p]

\* C10 as amended: no banner block is yielded before its worker has finished,
\* and if the worker of X finishes before the worker of Y, and Y's finishes
\* after the loop over as_completed has been entered, X's block is yielded
\* before Y's; the order among the items whose workers had finished by then
\* is not determined.
C10_CompletionOrderOnceIterating ==
    /\ \A p \in 1..Len(BannerOrder) : Place(par.order, BannerOrder[p]) # 0
    /\ \A x, y \in Items :
         ( /\ Place(par.order, x) # 0
           /\ Place(par.order, x) < Place(par.order, y)
           /\ y \notin par.early
           /\ Place(BannerOrder, y) # 0 )
         => /\ Place(BannerOrder, x) # 0
            /\ Place(BannerOrder, x) < Place(BannerOrder, y)

\* The stream has ended; an item submitted later finished first, the earlier
\* one finished after the loop was entered, and both have their banners.
C10_Witness ==
    /\ par.pc = "done"
    /\ \E x, y \in Items :
         /\ x > y
         /\ Place(par.order, x) < Place(par.order, y)
         /\ y \notin par.early
         /\ x \notin par.early
         /\ Place(BannerOrder, x) < Place(BannerOrder, y)

\* The items of the batch a worker has started.
Started == { n \in Items : par.inv[n] # None }

\* C11: during a run of whisper_stream_parallel with max_workers = N, at most
\* N items are being transcribed at the same time: at most N futures are
\* running (an item beyond N starts only when a worker has finished its
\* item), at most N whisper processes started for the batch are running, and
\* at most N keys of the batch are registered.
C11_AtMostMaxWorkersAtOnce ==
    /\ Cardinality({ n \in Items : par.fut[n] = "running" }) <= par.max_workers
    /\ Cardinality({ n \in Started : proc[par.inv[n]] = "running" })
         <= par.max_workers
    /\ Cardinality({ n \in Started : job_running(<<par.book, par.items[n]>>) })
         <= par.max_workers

\* C12: the file of the store is created or replaced only by a speed test
\* whose run returned with exit code 0 and whose ratio is positive (a positive
\* audio duration over a positive processing time): a test that failed, timed
\* out or gave a zero ratio leaves the file as it was.
C12_OnlySuccessfulBenchmarkPersists ==
    [][ store'.file # store.file =>
          /\ speed.pc = "measured" /\ speed'.pc = "responded"
          /\ speed.run.kind = "returned" /\ speed.run.returncode = 0
          /\ speed.result.success
          /\ speed.result.audio_duration > 0 /\ speed.elapsed > 0
          /\ Positive(speed.result.speed_ratio) ]_vars

\* A speed test whose run returned with exit code 0 for a clip of duration 0
\* was answered as a failure, and the file still is the mapping the latest
\* save left.
C12_Witness ==
    /\ speed.pc = "responded"
    /\ speed.response = "failure"
    /\ speed.result.success
    /\ speed.result.speed_ratio = Zero
    /\ store.file.kind = "dict"
    /\ DOMAIN store.file.map # {}
    /\ store.file = store.last.after

\* C13: the speed_ratio test_whisper_speed returns is audio_duration over
\* processing_time when the run returned and both are positive (10 s of audio
\* in 5 s give 2), and 0 when one of them is 0 or less, on a timeout and on an
\* exception.
C13_RatioIsDurationOverTime ==
    speed.pc \in {"measured", "responded"} =>
        LET audio_duration == speed.result.audio_duration
            processing_time == speed.elapsed
            speed_ratio == speed.result.speed_ratio
        IN IF /\ speed.run.kind = "returned"
              /\ audio_duration > 0
              /\ processing_time > 0
           THEN /\ speed_ratio[2] > 0
                /\ speed_ratio[1] * processing_time = speed_ratio[2] * audio_duration
                /\ (audio_duration = 10 /\ processing_time = 5)
                     => speed_ratio = << 2, 1 >>
           ELSE speed_ratio = Zero

\* The run returned after 5 s for a clip of 10 s.
C13_Witness ==
    /\ speed.pc = "measured"
    /\ speed.run.kind = "returned"
    /\ speed.result.audio_duration = 10
    /\ speed.elapsed = 5
    /\ speed.result.speed_ratio = << 2, 1 >>

\* What a lookup of key k is to return: the record of the latest save of k,
\* not found when k was never saved.
LatestSaved(k) ==
    IF k \in DOMAIN store.saved
    THEN [status |-> "found", body |-> store.saved[k]]
    ELSE [status |-> "not_found", body |-> NoSpeedRecord]

AbsentOrCorrupt == {"absent"} \cup CorruptKinds

\* C15: when the file of the store is absent or corrupt, a read takes it for
\* an empty mapping and reports not found for every key, and a write does not
\* raise and, when it has written the file, leaves a mapping that holds the
\* written key and no other.
C15_AbsentOrCorruptIsEmpty ==
    /\ store.answer.before \in AbsentOrCorrupt =>
         store.answer.status = "not_found"
    /\ store.last.before \in AbsentOrCorrupt =>
         /\ store.last.outcome # "raised"
         /\ store.last.outcome = "written" =>
              /\ store.last.after.kind = "dict"
              /\ DOMAIN store.last.after.map = {store.last.key}

\* C16: whatever the calls of get_whisper_capabilities_cached in one process
\* and however they interleave, the help command of the tool is run at most
\* once and every call returns the value the first call returned, a failed
\* first probe included.
C16_ProbedOnceSameValue ==
    /\ probe.runs <= 1
    /\ \A t \in Inv :
         probe.pc[t] = "returned" => probe.result[t] = probe.first.value
    /\ probe.cache.full => probe.cache.value = probe.first.value

\* C17: when the probe fails (no tool, a timeout, or the help command exits
\* with a code other than 0), get_whisper_capabilities_cached returns, and
\* its result has the two features unavailable and installed false.
C17_FailedProbeAllFalse ==
    \A t \in Inv :
        (probe.pc[t] = "computed" /\ probe.help[t].kind # "exit_zero")
        => probe.result[t] = NoCapabilities

\* C18: when the consumer of a whisper_stream generator abandons or closes it
\* after the key was registered and before the end, the entry of the key is
\* released all the same: no closed generator leaves its handle registered.
C18_AbandonReleasesKey ==
    \A i \in Inv :
        pc[i] = "closed" => /\ regState[i] # "registered"
                            /\ jobs[key[i]] # i

\* C19: an invocation of whisper_stream removes from the registry only the
\* handle it has put there: the entry of an invocation whose process is
\* running is removed by no step of another invocation.
C19_RemovesOnlyOwnHandle ==
    [][ \A i \in Inv :
          ( /\ jobs[key[i]] = i
            /\ proc[i] = "running"
            /\ ~job_running(key[i])' )
          => pc'[i] # pc[i] ]_vars

\* C20: in the stream of whisper_stream_parallel, the lines of an item all
\* carry the tag of the item, stand together between the COMPLETED banner and
\* the END banner of the item with no line of another item among them, and
\* are the lines the item's whisper_stream yielded, in the order in which it
\* yielded them.
C20_ItemLinesTogetherInOrder ==
    \A n \in Items :
        LET mp3 == par.items[n]
            opens == Banners(n, {"completed"})
            ends == Banners(n, {"end"})
            lines == Banners(n, {"line"})
        IN /\ lines # {} => opens # {} /\ ends # {}
           /\ \A p \in opens, q \in ends :
                LET output_lines == out[par.inv[n]]
                IN /\ q - p - 1 = Len(output_lines)
                   /\ lines = (p + 1)..(q - 1)
                   /\ \A r \in (p + 1)..(q - 1) :
                        /\ par.out[r].kind = "line"
                        /\ par.out[r].item = mp3
                        /\ par.out[r].line = output_lines[r - p]

\* The stream has ended with the blocks of two items that were transcribed,
\* one of them with a line of its tool among its lines.
C20_Witness ==
    /\ par.pc = "done"
    /\ \E n, m \in Items :
         /\ n # m
         /\ par.fut[n] = "finished" /\ par.fut[m] = "finished"
         /\ "tool" \in Kinds(out[par.inv[n]])
         /\ "done_success" \in Kinds(out[par.inv[m]])
         /\ Banners(n, {"line"}) # {} /\ Banners(m, {"line"}) # {}

\* C21: when every process that is started exits and every consumer keeps
\* asking for lines, each invocation of whisper_stream that was started comes
\* to its end with its key out of the registry, and a call of
\* whisper_stream_parallel that was started comes to its end with the key of
\* none of its items in the registry.
C21_TerminatesAndReleases ==
    /\ \A i \in Inv :
         (pc[i] # "idle") ~> (Ended(i) /\ ~job_running(key[i]))
    /\ (par.pc # "idle") ~>
         ( /\ par.pc = "done"
           /\ \A n \in Items : ~job_running(<<par.book, par.items[n]>>) )

\* The parallel stream has ended: one of its items had registered its process
\* and read the output to its end, another took the exception path after it
\* had registered.
C21_Witness ==
    /\ par.pc = "done"
    /\ \E n, m \in Items :
         /\ par.fut[n] = "finished" /\ par.fut[m] = "finished"
         /\ "done_success" \in Kinds(out[par.inv[n]])
         /\ "exception" \in Kinds(out[par.inv[m]])
         /\ regState[par.inv[n]] = "deregistered"
         /\ regState[par.inv[m]] = "deregistered"

\* C22: whenever a process started by whisper_stream for key k is running,
\* job_running(k) is true: in no state is a process of k alive while k is
\* not in the registry.
C22_RunningProcessIsRegistered ==
    \A i \in Inv : proc[i] = "running" => job_running(key[i])

\* The stream of invocation i has a line of the given kind that says
\* "enabled".
SaysEnabled(i, kind) ==
    \E n \in 1..Len(out[i]) :
        out[i][n].kind = kind /\ out[i][n].text = <<"enabled">>

\* C23: the feature status whisper_stream narrates agrees with the command
\* it runs: the stream says "Word highlighting: enabled" exactly when
\* --highlight_words is passed to the tool, and "Word timestamps: enabled"
\* exactly when --word_timestamps is passed.
C23_NarrationAgreesWithCommand ==
    \A i \in Inv :
        CmdBuilt(i) =>
            /\ SaysEnabled(i, "word_timestamps") <=> "--word_timestamps" \in cmd[i]
            /\ SaysEnabled(i, "word_highlighting") <=> "--highlight_words" \in cmd[i]

\* The calls of save_speed_ratio_data of threads t and u, for two keys, have
\* both written the file.
BothWritten(t, u) ==
    /\ t # u
    /\ store.writers[t].key # store.writers[u].key
    /\ store.writers[t].outcome = "written"
    /\ store.writers[u].outcome = "written"

\* C24: when two calls of save_speed_ratio_data for two keys run at the same
\* time, then after both have written, the store holds the record of each of
\* the two, and the record stored before under a third key is still there.
C24_ConcurrentSavesKeepBoth ==
    \A t, u \in Inv :
        ( /\ BothWritten(t, u)
          /\ \A v \in Inv : store.writers[v].pc \in {"idle", "done"} )
        => /\ Lookup(store.file, store.writers[t].key)
                = [status |-> "found", body |-> store.writers[t].data]
           /\ Lookup(store.file, store.writers[u].key)
                = [status |-> "found", body |-> store.writers[u].data]
           /\ StoredKey \notin {store.writers[t].key, store.writers[u].key}
                => Lookup(store.file, StoredKey)
                     = [status |-> "found", body |-> StoredRecord]

\* C25: for one request POST /gen_all, the parallel path and the sequential
\* path run the tool with the same feature flags for every item: on either
\* path the command of an item is the one whisper_stream builds from the
\* flags of the request.
C25_PathsBuildSameCommand ==
    LET capabilities == get_whisper_capabilities_cached
    IN /\ \A n \in Started :
            CmdBuilt(par.inv[n]) =>
                cmd[par.inv[n]]
                  = WhisperStreamCmd(par.request.wt, par.request.hl, capabilities)
       /\ (batch.pc = "running" /\ batch.cur # None) =>
            (CmdBuilt(batch.cur) =>
                cmd[batch.cur] = WhisperStreamCmd(batch.wt, batch.hl, capabilities))

====
